---- MODULE Spec2Model ----
(***************************************************************************)
(* Model of quantum_sieving_mof_screening.ipynb: a notebook of five code   *)
(* cells run top to bottom (load + target synthesis, normalisation,        *)
(* missing-value filter, train/test split, linear regression + MSE).       *)
(*                                                                         *)
(* Numbers are the notebook's float64 cells, modelled as exact rationals   *)
(* plus the three IEEE specials the pipeline can produce (NaN, +inf,       *)
(* -inf).  Rounding and signed zero are not modelled.                      *)
(***************************************************************************)
EXTENDS Integers, Sequences, FiniteSets

(***************************************************************************)
(* Bounds of the model.                                                    *)
(***************************************************************************)
MaxRecords == 10    \* rows of mofdb.csv
MaxVaried  == 2     \* leading rows of the file drawn freely from RowPool
MaxRuns    == 2     \* executions of the notebook on the same file

(***************************************************************************)
(* float64 values: k is "fin" (the rational n/d in lowest terms, d > 0),   *)
(* "nan", "inf" or "ninf".                                                 *)
(***************************************************************************)
Abs(i) == IF i < 0 THEN -i ELSE i

RECURSIVE Gcd(_, _)
Gcd(a, b) == IF b = 0 THEN a ELSE Gcd(b, a % b)

Fin(n, d) ==
    LET g == Gcd(Abs(n), Abs(d))
        s == IF d < 0 THEN -1 ELSE 1
    IN  [k |-> "fin", n |-> (s * n) \div g, d |-> (s * d) \div g]

NaN  == [k |-> "nan",  n |-> 0, d |-> 1]
Inf  == [k |-> "inf",  n |-> 0, d |-> 1]
NInf == [k |-> "ninf", n |-> 0, d |-> 1]
Num(i) == Fin(i, 1)

IsNaN(a)    == a.k = "nan"
IsFinite(a) == a.k = "fin"
IsZero(a)   == a.k = "fin" /\ a.n = 0

\* sign of a non-NaN value: -1, 0 or 1
Sign(a) ==
    IF a.k = "inf" THEN 1
    ELSE IF a.k = "ninf" THEN -1
    ELSE IF a.n > 0 THEN 1 ELSE IF a.n < 0 THEN -1 ELSE 0

Signed(s) == IF s > 0 THEN Inf ELSE IF s < 0 THEN NInf ELSE NaN

Neg(a) ==
    IF a.k = "fin" THEN Fin(-a.n, a.d)
    ELSE IF a.k = "inf" THEN NInf
    ELSE IF a.k = "ninf" THEN Inf
    ELSE NaN

\* IEEE addition: NaN propagates, inf + (-inf) = NaN.
Add(a, b) ==
    IF IsNaN(a) \/ IsNaN(b) THEN NaN
    ELSE IF IsFinite(a) /\ IsFinite(b)
         THEN LET g == Gcd(a.d, b.d)
              IN  Fin(a.n * (b.d \div g) + b.n * (a.d \div g), (a.d \div g) * b.d)
    ELSE IF IsFinite(a) THEN b
    ELSE IF IsFinite(b) THEN a
    ELSE IF a.k = b.k THEN a ELSE NaN

Sub(a, b) == Add(a, Neg(b))

\* IEEE multiplication: 0 * inf = NaN.
Mul(a, b) ==
    IF IsNaN(a) \/ IsNaN(b) THEN NaN
    ELSE IF IsFinite(a) /\ IsFinite(b)
         THEN LET g1 == Gcd(Abs(a.n), b.d)
                  g2 == Gcd(Abs(b.n), a.d)
              IN  Fin((a.n \div g1) * (b.n \div g2), (a.d \div g2) * (b.d \div g1))
    ELSE Signed(Sign(a) * Sign(b))

\* IEEE division as numpy performs it on float64 arrays: no exception,
\* x/0 = +-inf for x # 0, 0/0 = NaN, inf/inf = NaN, x/inf = 0.
Div(a, b) ==
    IF IsNaN(a) \/ IsNaN(b) THEN NaN
    ELSE IF IsFinite(a) /\ IsFinite(b)
         THEN IF b.n = 0 THEN Signed(Sign(a))
              ELSE LET g1 == Gcd(Abs(a.n), Abs(b.n))
                       g2 == Gcd(a.d, b.d)
                   IN  Fin((a.n \div g1) * (b.d \div g2), (a.d \div g2) * (b.n \div g1))
    ELSE IF IsFinite(a) THEN Num(0)
    ELSE IF IsFinite(b) THEN Signed(Sign(a) * (IF Sign(b) < 0 THEN -1 ELSE 1))
    ELSE NaN

\* a < b on non-NaN values
Less(a, b) ==
    IF a.k = "ninf" THEN b.k # "ninf"
    ELSE IF a.k = "inf" THEN FALSE
    ELSE IF b.k = "inf" THEN TRUE
    ELSE IF b.k = "ninf" THEN FALSE
    ELSE a.n * b.d < b.n * a.d

Leq(a, b) == a = b \/ Less(a, b)

(***************************************************************************)
(* Columns (cell 3).  Units are dropped from the names.                    *)
(***************************************************************************)
column_names ==
    << "asa_grav", "asa_vol", "av_vf", "pore_volume",
       "density", "nexc", "uptake_grav", "uptake_vol",
       "lcd", "pld", "LFPD", "cell_length_a", "cell_length_b", "cell_length_c",
       "cell_angle_alpha", "cell_angle_beta", "cell_angle_gamma", "cell_volume",
       "Target" >>

IsFeature(c) == c # "Target"

\* cell 4: features = [col for col in column_names if col != "Target"]
features == SelectSeq(column_names, IsFeature)

Range(s) == {s[i] : i \in 1..Len(s)}

\* The same sequence, with every element computed once (an array in memory).
Array(s) == s \o << >>

\* The same matrix, as an array of arrays.
Array2(M) == Array([i \in 1..Len(M) |-> Array(M[i])])

ColumnSet  == Range(column_names)
FeatureSet == Range(features)

(***************************************************************************)
(* The input file.  A row of mofdb.csv gives pore_volume p, uptake_vol u   *)
(* and one value o shared by the sixteen other feature columns.  The first *)
(* MaxVaried rows of the file are drawn from RowPool; the rows after them  *)
(* repeat the complete rows of FillerRows cyclically.                      *)
(***************************************************************************)
CsvRow(p, u, o) ==
    [c \in FeatureSet |->
        IF c = "pore_volume" THEN p ELSE IF c = "uptake_vol" THEN u ELSE o]

FillerRows ==
    << CsvRow(Num(1), Num(1), Num(0)),
       CsvRow(Num(2), Num(0), Num(1)),
       CsvRow(Fin(1, 2), Num(1), Num(1)) >>

RowPool ==
    Range(FillerRows) \cup
    { CsvRow(Fin(3, 2), Num(0), Num(2)), \* complete
      CsvRow(NaN, Num(0), Num(1)),       \* pore_volume missing
      CsvRow(Num(0), Num(1), Num(0)),    \* pore_volume zero
      CsvRow(Num(1), NaN, Num(1)),       \* uptake_vol missing
      CsvRow(Num(4), Num(1), NaN) }      \* the other columns missing

Min2(a, b) == IF a < b THEN a ELSE b

CsvFiles ==
    UNION { { [i \in 1..n |->
                 IF i <= Min2(n, MaxVaried) THEN head[i]
                 ELSE FillerRows[(i % Len(FillerRows)) + 1]] :
              head \in [1..Min2(n, MaxVaried) -> RowPool] } :
            n \in 0..MaxRecords }

(***************************************************************************)
(* State.  A DataFrame is a sequence of rows [label, v], label the pandas  *)
(* index label and v the row's cells by column; a Series is a sequence of  *)
(* [label, v] with v one cell.  A name the notebook has not bound yet      *)
(* holds the empty sequence.                                               *)
(***************************************************************************)
VARIABLES
    pc,          \* the next cell to execute, "done", or "error"
    error,       \* the exception that stopped the run ("" if none)
    csv,         \* mofdb.csv
    data,        \* cell 2
    svm_data,    \* cells 3, 4
    X, y,        \* cell 4
    X_train, X_test, y_train, y_test,   \* cell 5
    model,       \* cell 6: [coef_, intercept_]
    y_pred,      \* cell 6
    mse,         \* cell 6
    run,         \* number of the current execution of the notebook
    last_split   \* labels of (Training, Evaluation) of the previous execution

vars == << pc, error, csv, data, svm_data, X, y, X_train, X_test, y_train,
           y_test, model, y_pred, mse, run, last_split >>

Unbound == << >>

Labels(frame) == [i \in 1..Len(frame) |-> frame[i].label]

(***************************************************************************)
(* Cell 2: load and synthesize Target.                                     *)
(***************************************************************************)
\* pd.read_csv: RangeIndex labels 0..n-1
read_csv(file) == [i \in 1..Len(file) |-> [label |-> i - 1, v |-> file[i]]]

Half == Fin(1, 2)

\* 0.5 * data['uptake_vol'] + 0.5 * (1 / data['pore_volume'])
TargetUnscaled(row) ==
    Add(Mul(Half, row["uptake_vol"]), Mul(Half, Div(Num(1), row["pore_volume"])))

\* the variant without the final  data['Target'] *= 2
TargetNoScale(row) == TargetUnscaled(row)

\* data['Target'] *= 2
TargetOf(row) == Mul(TargetUnscaled(row), Num(2))

SetTarget(frame) ==
    [i \in 1..Len(frame) |->
        [label |-> frame[i].label,
         v |-> [c \in ColumnSet |->
                   IF c = "Target" THEN TargetOf(frame[i].v) ELSE frame[i].v[c]]]]

Cell2 ==
    /\ pc = "cell2"
    /\ data' = SetTarget(read_csv(csv))
    /\ pc' = "cell3"
    /\ UNCHANGED << error, csv, svm_data, X, y, X_train, X_test, y_train,
                    y_test, model, y_pred, mse, run, last_split >>

(***************************************************************************)
(* Cell 3: min-max normalisation of the feature columns.                   *)
(***************************************************************************)
\* data[column_names]: a new frame with the listed columns
SelectColumns(frame, cols) ==
    [i \in 1..Len(frame) |->
        [label |-> frame[i].label, v |-> [c \in cols |-> frame[i].v[c]]]]

\* non-missing cells of a column (Series.min / Series.max skip NaN)
Present(frame, c) == {frame[i].v[c] : i \in 1..Len(frame)} \ {NaN}

ColMin(frame, c) ==
    LET vals == Present(frame, c)
    IN  IF vals = {} THEN NaN
        ELSE CHOOSE m \in vals : \A x \in vals : Leq(m, x)

ColMax(frame, c) ==
    LET vals == Present(frame, c)
    IN  IF vals = {} THEN NaN
        ELSE CHOOSE m \in vals : \A x \in vals : Leq(x, m)

\* v / (max - min): the minimum is not subtracted
RescaleNoShift(v, mn, mx) == Div(v, Sub(mx, mn))

\* (v - min) / (max - min)
Rescale(v, mn, mx) == Div(Sub(v, mn), Sub(mx, mn))

\* pandas counts NaN as missing; +-inf is not missing
HasNA(row) == \E c \in DOMAIN row.v : IsNaN(row.v[c])

\* dropna(how='all'): a row is dropped only when every cell is missing
NotAllNA(row) == \E c \in DOMAIN row.v : ~IsNaN(row.v[c])

NotNA(row) == ~HasNA(row)

\* min and max taken over the rows that survive the missing-value filter
NormalizeColumnFiltered(frame, c) ==
    LET kept == SelectSeq(frame, NotNA)
        mn == ColMin(kept, c)
        mx == ColMax(kept, c)
    IN  Array([i \in 1..Len(frame) |->
            [label |-> frame[i].label,
             v |-> [frame[i].v EXCEPT ![c] = Rescale(@, mn, mx)]]])

\* svm_data[column] = (svm_data[column] - min) / (max - min)
NormalizeColumn(frame, c) ==
    LET mn == ColMin(frame, c)
        mx == ColMax(frame, c)
    IN  Array([i \in 1..Len(frame) |->
            [label |-> frame[i].label,
             v |-> [frame[i].v EXCEPT ![c] = Rescale(@, mn, mx)]]])

\* the loop body without its test: every column is rescaled
NormalizeAll(column) == TRUE

\* if column != "Target"
NotTarget(column) == column # "Target"

\* for column in column_names: if column != "Target": ...
RECURSIVE NormalizeFrom(_, _)
NormalizeFrom(frame, i) ==
    IF i > Len(column_names) THEN frame
    ELSE IF NotTarget(column_names[i])
         THEN NormalizeFrom(NormalizeColumn(frame, column_names[i]), i + 1)
         ELSE NormalizeFrom(frame, i + 1)

Cell3 ==
    /\ pc = "cell3"
    /\ svm_data' = NormalizeFrom(SelectColumns(data, ColumnSet), 1)
    /\ pc' = "cell4"
    /\ UNCHANGED << error, csv, data, X, y, X_train, X_test, y_train,
                    y_test, model, y_pred, mse, run, last_split >>

(***************************************************************************)
(* Cell 4: drop rows with a missing cell, take X and y.                    *)
(***************************************************************************)
dropna(frame) == SelectSeq(frame, NotNA)

\* svm_data['Target']
Column(frame, c) ==
    [i \in 1..Len(frame) |-> [label |-> frame[i].label, v |-> frame[i].v[c]]]

Cell4 ==
    /\ pc = "cell4"
    /\ svm_data' = dropna(svm_data)
    /\ X' = SelectColumns(svm_data', FeatureSet)
    /\ y' = Column(svm_data', "Target")
    /\ pc' = "cell5"
    /\ UNCHANGED << error, csv, data, X_train, X_test, y_train, y_test,
                    model, y_pred, mse, run, last_split >>

(***************************************************************************)
(* Cell 5: train_test_split(X, y, test_size=0.2, random_state=42).         *)
(***************************************************************************)
test_size    == Fin(1, 5)
random_state == 42

\* math.ceil / math.floor of a finite value
Ceil(a)  == -((-a.n) \div a.d)

\* The bounded draws rk_interval(i) that RandomState(42).permutation(n)
\* takes from the Mersenne Twister for i = n-1, ..., 1, by n.
Mt19937Intervals ==
    << << >>,
       << 0 >>,
       << 2, 1 >>,
       << 2, 0, 0 >>,
       << 3, 0, 2, 0 >>,
       << 3, 4, 2, 2, 1 >>,
       << 6, 3, 4, 2, 2, 1 >>,
       << 6, 3, 4, 2, 3, 0, 0 >>,
       << 6, 3, 4, 2, 4, 0, 2, 1 >>,
       << 6, 3, 4, 6, 2, 4, 0, 2, 1 >>,
       << 6, 3, 7, 4, 4, 1, 2, 2, 2, 0 >>,
       << 6, 3, 7, 4, 6, 1, 2, 2, 2, 0, 1 >>,
       << 6, 3, 10, 7, 4, 6, 1, 2, 2, 2, 0, 1 >> >>

\* every sequence of draws an RNG can return for i = n-1, ..., 1
AnyIntervals(n) ==
    IF n < 2 THEN { << >> }
    ELSE { d \in [1..(n - 1) -> 0..(n - 1)] : \A k \in 1..(n - 1) : d[k] <= n - k }

\* random_state=None: the generator is seeded from the operating system, so
\* a run can see the stream of seed 42 or another one (here the all-zero one)
UnseededIntervals(seed, n) ==
    { IF n < 2 THEN << >> ELSE Mt19937Intervals[n],
      [k \in 1..(IF n < 2 THEN 0 ELSE n - 1) |-> 0] }

\* The draw sequences the generator seeded with `seed` can return.
RandomIntervals(seed, n) ==
    IF seed = 42 THEN { IF n < 2 THEN << >> ELSE Mt19937Intervals[n] }
    ELSE AnyIntervals(n)

Swap(x, a, b) == [x EXCEPT ![a] = x[b], ![b] = x[a]]

\* RandomState.shuffle: for i in reversed(range(1, n)): j = rk_interval(i);
\* x[i], x[j] = x[j], x[i]        (positions are 0-based in the source)
RECURSIVE ShuffleFrom(_, _, _)
ShuffleFrom(x, i, draws) ==
    IF i < 1 THEN x
    ELSE ShuffleFrom(Swap(x, i + 1, Head(draws) + 1), i - 1, Tail(draws))

\* rng.permutation(n): shuffle of arange(n)
Permutation(n, draws) == ShuffleFrom([k \in 1..n |-> k - 1], n - 1, draws)

\* _validate_shuffle_split: n_test = ceil(test_size * n_samples)
NTest(n_samples) == Ceil(Mul(test_size, Num(n_samples)))

\* n_train = n_samples - n_test
NTrain(n_samples) == n_samples - NTest(n_samples)

\* ind_test = permutation[:n_test]
IndTest(perm, n_test) == SubSeq(perm, 1, n_test)

\* permutation[:n_train]: the slice starts at 0
IndTrainFromStart(perm, n_test, n_train) == SubSeq(perm, 1, n_train)

\* ind_train = permutation[n_test:(n_test + n_train)]
IndTrain(perm, n_test, n_train) == SubSeq(perm, n_test + 1, n_test + n_train)

\* _safe_indexing(a, indices): a.iloc[indices]
Take(frame, ind) == [k \in 1..Len(ind) |-> frame[ind[k] + 1]]

Cell5Split ==
    /\ pc = "cell5"
    /\ NTrain(Len(X)) > 0
    /\ \E draws \in RandomIntervals(random_state, Len(X)) :
          LET perm  == Permutation(Len(X), draws)
              test  == IndTest(perm, NTest(Len(X)))
              train == IndTrain(perm, NTest(Len(X)), NTrain(Len(X)))
          IN  /\ X_train' = Take(X, train)
              /\ X_test'  = Take(X, test)
              /\ y_train' = Take(y, train)
              /\ y_test'  = Take(y, test)
    /\ pc' = "cell6"
    /\ UNCHANGED << error, csv, data, svm_data, X, y, model, y_pred, mse,
                    run, last_split >>

\* ValueError: "the resulting train set will be empty"
Cell5Error ==
    /\ pc = "cell5"
    /\ NTrain(Len(X)) = 0
    /\ pc' = "error"
    /\ error' = "ValueError: train set will be empty"
    /\ UNCHANGED << csv, data, svm_data, X, y, X_train, X_test, y_train,
                    y_test, model, y_pred, mse, run, last_split >>

Cell5 == Cell5Split \/ Cell5Error

(***************************************************************************)
(* Cell 6: LinearRegression().fit / predict / mean_squared_error.          *)
(* Vectors are sequences of values, matrices sequences of rows.            *)
(***************************************************************************)
Zero == Num(0)

RECURSIVE SumFrom(_, _)
SumFrom(s, i) == IF i > Len(s) THEN Zero ELSE Add(s[i], SumFrom(s, i + 1))

Sum(s) == SumFrom(s, 1)

Dot(a, b) == Sum(Array([i \in 1..Len(a) |-> Mul(a[i], b[i])]))

\* np.average(v)
Mean(s) == Div(Sum(s), Num(Len(s)))

NCols(M) == IF Len(M) = 0 THEN 0 ELSE Len(M[1])

MatCol(M, j) == Array([i \in 1..Len(M) |-> M[i][j]])

Transpose(M, ncols) == Array([j \in 1..ncols |-> MatCol(M, j)])

MatVec(M, v) == Array([i \in 1..Len(M) |-> Dot(M[i], v)])

\* M M^T
GramRows(M) == Array2([i \in 1..Len(M) |-> [j \in 1..Len(M) |-> Dot(M[i], M[j])]])

\* the frame's cells as a matrix, columns in the order of `features`
ToMatrix(frame) ==
    Array2([i \in 1..Len(frame) |->
               [j \in 1..Len(features) |-> frame[i].v[features[j]]]])

ToVector(series) == Array([i \in 1..Len(series) |-> series[i].v])

\* check_array(..., force_all_finite=True)
AllFiniteMatrix(M) == \A i \in 1..Len(M) : \A j \in 1..Len(M[i]) : IsFinite(M[i][j])
AllFiniteVector(v) == \A i \in 1..Len(v) : IsFinite(v[i])

\* Reduced row echelon form by Gauss-Jordan elimination from row r, column c.
RECURSIVE Rref(_, _, _)
Rref(M, r, c) ==
    IF r > Len(M) \/ c > NCols(M) THEN M
    ELSE LET cand == {i \in r..Len(M) : ~IsZero(M[i][c])}
         IN  IF cand = {} THEN Rref(M, r, c + 1)
             ELSE LET p   == CHOOSE i \in cand : \A k \in cand : i <= k
                      S   == Array(Swap(M, r, p))
                      piv == Array([j \in 1..NCols(M) |-> Div(S[r][j], S[r][c])])
                      E   == Array2([i \in 1..Len(M) |->
                                IF i = r THEN piv
                                ELSE [j \in 1..NCols(M) |->
                                        Sub(S[i][j], Mul(S[i][c], piv[j]))]])
                  IN  Rref(E, r + 1, c + 1)

IsZeroRow(row) == \A j \in 1..Len(row) : IsZero(row[j])

NonZeroRow(row) == ~IsZeroRow(row)

\* column of the leading entry of a nonzero row
Lead(row) == CHOOSE j \in 1..Len(row) : ~IsZero(row[j]) /\ \A k \in 1..(j - 1) : IsZero(row[k])

\* Solution of the nonsingular square system S t = b.
Solve(S, b) ==
    LET aug == Array([i \in 1..Len(S) |-> Append(S[i], b[i])])
        R   == Rref(aug, 1, 1)
    IN  Array([i \in 1..Len(S) |-> R[i][Len(S) + 1]])

\* scipy.linalg.lstsq(A, b)[0]: the least-squares solution of minimum norm,
\* A^+ b.  With the rank factorisation A = C F (C the pivot columns of A, F
\* the nonzero rows of rref(A)):  A^+ = F^T (F F^T)^-1 (C^T C)^-1 C^T.
lstsq(A, b, ncols) ==
    LET F == SelectSeq(Rref(A, 1, 1), NonZeroRow)
        r == Len(F)
        Ct == Array([k \in 1..r |-> MatCol(A, Lead(F[k]))])
    IN  IF r = 0 THEN Array([j \in 1..ncols |-> Zero])
        ELSE LET t1 == MatVec(Ct, b)
                 t2 == Solve(GramRows(Ct), t1)
                 t3 == Solve(GramRows(F), t2)
             IN  MatVec(Transpose(F, ncols), t3)

\* _preprocess_data: X_offset = mean of each column, y_offset = mean(y)
ColumnMeans(M, ncols) == Array([j \in 1..ncols |-> Mean(MatCol(M, j))])

Center(M, offset) ==
    Array2([i \in 1..Len(M) |-> [j \in 1..Len(M[i]) |-> Sub(M[i][j], offset[j])]])

\* intercept_ = y_offset: the term X_offset . coef_ is left out
FitInterceptMean(Xm, yv) ==
    LET X_offset == ColumnMeans(Xm, Len(features))
        y_offset == Mean(yv)
        coef     == lstsq(Center(Xm, X_offset),
                          Array([i \in 1..Len(yv) |-> Sub(yv[i], y_offset)]),
                          Len(features))
    IN  [coef_ |-> coef, intercept_ |-> y_offset]

\* LinearRegression.fit: centre, least squares, then
\* intercept_ = y_offset - X_offset . coef_
Fit(Xm, yv) ==
    LET X_offset == ColumnMeans(Xm, Len(features))
        y_offset == Mean(yv)
        coef     == lstsq(Center(Xm, X_offset),
                          Array([i \in 1..Len(yv) |-> Sub(yv[i], y_offset)]),
                          Len(features))
    IN  [coef_ |-> coef, intercept_ |-> Sub(y_offset, Dot(X_offset, coef))]

\* LinearRegression.predict: X @ coef_ + intercept_
Predict(m, Xm) ==
    Array([i \in 1..Len(Xm) |-> Add(Dot(Xm[i], m.coef_), m.intercept_)])

\* np.average((y_true - y_pred) ** 2)
mean_squared_error(y_true, pred) ==
    Mean(Array([i \in 1..Len(y_true) |->
                  Mul(Sub(y_true[i], pred[i]), Sub(y_true[i], pred[i]))]))

\* model.fit raises ValueError on NaN or infinity in X_train or y_train
FitRejects ==
    ~(AllFiniteMatrix(ToMatrix(X_train)) /\ AllFiniteVector(ToVector(y_train)))

\* predict / mean_squared_error raise ValueError on NaN or infinity
MetricRejects ==
    ~(AllFiniteMatrix(ToMatrix(X_test)) /\ AllFiniteVector(ToVector(y_test)))

Cell6FitError ==
    /\ pc = "cell6"
    /\ FitRejects
    /\ pc' = "error"
    /\ error' = "ValueError: input contains NaN or infinity (fit)"
    /\ UNCHANGED << csv, data, svm_data, X, y, X_train, X_test, y_train,
                    y_test, model, y_pred, mse, run, last_split >>

Cell6MetricError ==
    /\ pc = "cell6"
    /\ ~FitRejects
    /\ MetricRejects
    /\ model' = Fit(ToMatrix(X_train), ToVector(y_train))
    /\ y_pred' = IF AllFiniteMatrix(ToMatrix(X_test))
                 THEN Predict(model', ToMatrix(X_test)) ELSE y_pred
    /\ pc' = "error"
    /\ error' = "ValueError: input contains NaN or infinity (evaluation)"
    /\ UNCHANGED << csv, data, svm_data, X, y, X_train, X_test, y_train,
                    y_test, mse, run, last_split >>

Cell6Report ==
    /\ pc = "cell6"
    /\ ~FitRejects
    /\ ~MetricRejects
    /\ model' = Fit(ToMatrix(X_train), ToVector(y_train))
    /\ y_pred' = Predict(model', ToMatrix(X_test))
    /\ mse' = mean_squared_error(ToVector(y_test), y_pred')
    /\ pc' = "done"
    /\ UNCHANGED << error, csv, data, svm_data, X, y, X_train, X_test,
                    y_train, y_test, run, last_split >>

Cell6 == Cell6FitError \/ Cell6MetricError \/ Cell6Report

(***************************************************************************)
(* The notebook is run top to bottom; a run that has ended (reported or    *)
(* raised) can be followed by a fresh run on the same file.                *)
(***************************************************************************)
\* cell 5 has bound X_train, X_test, y_train, y_test in this run
SplitProduced ==
    \/ pc \in {"cell6", "done"}
    \/ pc = "error" /\ error # "ValueError: train set will be empty"

NoSplit == [valid |-> FALSE, train |-> << >>, test |-> << >>]

Restart ==
    /\ pc \in {"done", "error"}
    /\ run < MaxRuns
    /\ last_split' =
          IF SplitProduced
          THEN [valid |-> TRUE, train |-> Labels(X_train), test |-> Labels(X_test)]
          ELSE NoSplit
    /\ run' = run + 1
    /\ pc' = "cell2"
    /\ error' = ""
    /\ data' = Unbound /\ svm_data' = Unbound /\ X' = Unbound /\ y' = Unbound
    /\ X_train' = Unbound /\ X_test' = Unbound
    /\ y_train' = Unbound /\ y_test' = Unbound
    /\ model' = Unbound /\ y_pred' = Unbound /\ mse' = NaN
    /\ UNCHANGED csv

Init ==
    /\ csv \in CsvFiles
    /\ pc = "cell2"
    /\ error = ""
    /\ data = Unbound /\ svm_data = Unbound /\ X = Unbound /\ y = Unbound
    /\ X_train = Unbound /\ X_test = Unbound
    /\ y_train = Unbound /\ y_test = Unbound
    /\ model = Unbound /\ y_pred = Unbound /\ mse = NaN
    /\ run = 1
    /\ last_split = NoSplit

Next == Cell2 \/ Cell3 \/ Cell4 \/ Cell5 \/ Cell6 \/ Restart

Spec == Init /\ [][Next]_vars

(***************************************************************************)
(* Properties.                                                             *)
(***************************************************************************)
One == Num(1)

PastCell2 == pc # "cell2"
PastCell4 == pc \notin {"cell2", "cell3", "cell4"}
PastCell5 == pc \notin {"cell2", "cell3", "cell4", "cell5"}

LabelSet(frame) == {frame[i].label : i \in 1..Len(frame)}

\* the file's row behind an index label
Raw(label) == csv[label + 1]

\* smallest / largest non-missing loaded value of a column
LoadedMin(c) ==
    CHOOSE m \in Present(data, c) : \A x \in Present(data, c) : ~Less(x, m)
LoadedMax(c) ==
    CHOOSE m \in Present(data, c) : \A x \in Present(data, c) : ~Less(m, x)

HasRange(c) == Present(data, c) # {} /\ LoadedMin(c) # LoadedMax(c)

ZeroRange(c) == Present(data, c) # {} /\ LoadedMin(c) = LoadedMax(c)

InUnit(w) == IsFinite(w) /\ 0 <= w.n /\ w.n <= w.d

\* (v - mn) / (mx - mn) for finite v, mn, mx with mn # mx
MinMax(v, mn, mx) ==
    Fin((v.n * mn.d - mn.n * v.d) * (mx.d * mn.d),
        (mx.n * mn.d - mn.n * mx.d) * (v.d * mn.d))

\* C1: once cell 2 has run, every loaded record with uptake_vol u and
\* pore_volume p both present and p nonzero has Target = u + 1/p, a value
\* fixed by that record's own u and p.
C1_TargetFormula ==
    PastCell2 =>
        \A i \in 1..Len(data) :
            LET u == csv[i]["uptake_vol"]
                q == csv[i]["pore_volume"]
            IN  (IsFinite(u) /\ IsFinite(q) /\ ~IsZero(q)) =>
                    data[i].v["Target"] = Fin(u.n * q.n + q.d * u.d, u.d * q.n)

C1_Witness ==
    /\ pc = "cell3"
    /\ \E i \in 1..Len(data) :
          /\ csv[i]["uptake_vol"] = One
          /\ csv[i]["pore_volume"] = Fin(1, 2)
          /\ data[i].v["Target"] = Num(3)

\* C2 (as claimed): a record whose pore_volume is 0, or whose uptake_vol or
\* pore_volume is missing, gets a missing Target, is dropped by the filter
\* and never reaches the fitter, and the run is not aborted by it.
C2_MissingTargetDropped ==
    \A i \in 1..Len(csv) :
        LET u == csv[i]["uptake_vol"]
            q == csv[i]["pore_volume"]
        IN  (IsZero(q) \/ IsNaN(u) \/ IsNaN(q)) =>
                /\ PastCell2 => IsNaN(data[i].v["Target"])
                /\ PastCell4 => (i - 1) \notin LabelSet(X)

\* C3: right after the normalizer, in every feature column with a
\* non-missing value and a nonzero range, each non-missing value v has become
\* (v - min) / (max - min), lies in [0,1], and is 0 where v was the minimum
\* and 1 where v was the maximum.
C3_UnitInterval ==
    pc = "cell4" =>
        \A c \in FeatureSet :
            Present(data, c) # {} =>
                LET mn == LoadedMin(c)
                    mx == LoadedMax(c)
                IN  mn # mx =>
                        \A i \in 1..Len(data) :
                            LET v == data[i].v[c]
                                w == svm_data[i].v[c]
                            IN  ~IsNaN(v) =>
                                    /\ svm_data[i].label = data[i].label
                                    /\ w = MinMax(v, mn, mx)
                                    /\ InUnit(w)
                                    /\ (v = mn => w = Zero)
                                    /\ (v = mx => w = One)

C3_Witness ==
    /\ pc = "cell4"
    /\ HasRange("pore_volume")
    /\ \E i, j, k \in 1..Len(data) :
          /\ data[i].v["pore_volume"] = Fin(1, 2)
          /\ svm_data[i].v["pore_volume"] = Zero
          /\ data[j].v["pore_volume"] = Num(2)
          /\ svm_data[j].v["pore_volume"] = One
          /\ data[k].v["pore_volume"] = One
          /\ svm_data[k].v["pore_volume"] = Fin(1, 3)

RowComplete(row) == \A c \in ColumnSet : ~IsNaN(row.v[c])

MissingPoreVolume == {i \in 1..Len(csv) : IsNaN(csv[i]["pore_volume"])}

\* C4: cell 4 puts a record in X and y exactly when, after target synthesis
\* and normalisation, none of its 19 retained cells is missing, so X and y
\* hold no missing cell; with 5 records of which exactly one lacks
\* pore_volume and the other four have no missing cell, X and y get 4.
C4_FitMatrixPopulated ==
    [][ pc = "cell4" =>
          /\ \A i \in 1..Len(svm_data) :
                RowComplete(svm_data[i]) <=>
                    /\ svm_data[i].label \in LabelSet(X')
                    /\ svm_data[i].label \in LabelSet(y')
          /\ LabelSet(X') \subseteq LabelSet(svm_data)
          /\ Labels(X') = Labels(y')
          /\ \A k \in 1..Len(X') :
                /\ DOMAIN X'[k].v = FeatureSet
                /\ \A c \in FeatureSet : ~IsNaN(X'[k].v[c])
                /\ ~IsNaN(y'[k].v)
          /\ ( /\ Len(csv) = 5
               /\ Cardinality(MissingPoreVolume) = 1
               /\ \A i \in 1..Len(svm_data) :
                     i \notin MissingPoreVolume => RowComplete(svm_data[i]) )
             => Len(X') = 4 /\ Len(y') = 4
      ]_vars

C4_Witness ==
    /\ pc = "cell5"
    /\ Len(csv) = 5
    /\ Cardinality(MissingPoreVolume) = 1
    /\ Len(X) = 4
    /\ Len(y) = 4
    /\ \A i \in 1..Len(csv) : i \in MissingPoreVolume <=> (i - 1) \notin LabelSet(X)

\* rows of part are rows of whole
RowsOf(part, whole) ==
    \A k \in 1..Len(part) : \E a \in 1..Len(whole) : part[k] = whole[a]

Distinct(seq) == Cardinality(Range(seq)) = Len(seq)

Partitioned ==
    /\ SplitProduced
    /\ LabelSet(X_train) \cap LabelSet(X_test) = {}
    /\ LabelSet(X_train) \cup LabelSet(X_test) = LabelSet(X)
    /\ Distinct(Labels(X_train) \o Labels(X_test))
    /\ Labels(y_train) = Labels(X_train)
    /\ Labels(y_test) = Labels(X_test)
    /\ RowsOf(X_train, X) /\ RowsOf(X_test, X)
    /\ RowsOf(y_train, y) /\ RowsOf(y_test, y)
    /\ Abs(5 * Len(X_test) - Len(X)) <= 5
    /\ Len(X) = 10 => Len(X_train) = 8 /\ Len(X_test) = 2

\* C5 (as claimed): for every post-filtering dataset the splitter yields
\* disjoint Training and Evaluation subsets whose union is the dataset,
\* features and targets split alike, |Evaluation| within one record of
\* 0.2 |Dataset|, and 8 + 2 for 10 records.
C5_PartitionAlways == PastCell5 => Partitioned

\* C5 (amended): the same for every post-filtering dataset of at least two
\* records; with fewer the splitter raises ValueError and binds nothing.
C5_PartitionFromTwo ==
    PastCell5 =>
        /\ Len(X) >= 2 => Partitioned
        /\ Len(X) < 2 => pc = "error" /\ ~SplitProduced /\ X_train = Unbound

\* a fit matrix of exactly one record (two of three loaded records dropped):
\* the splitter raises and nothing is bound
C5_SingleRecord ==
    /\ pc = "error"
    /\ Len(csv) = 3
    /\ Len(X) = 1
    /\ Len(y) = 1
    /\ error = "ValueError: train set will be empty"
    /\ ~SplitProduced

\* the threshold is two records, not one: this weaker form is violated by the
\* single-record fit matrix
C5_PartitionFromOne == (PastCell5 /\ Len(X) >= 1) => Partitioned

C5_Witness ==
    /\ pc = "cell6"
    /\ Len(X) = 10
    /\ Labels(X_test) = << X[9].label, X[2].label >>
    /\ Len(X_train) = 8

\* C6: a later run of the notebook on the same file puts the same records in
\* Training and the same records in Evaluation as the run before it.
C6_SameSplit ==
    (run > 1 /\ last_split.valid /\ SplitProduced) =>
        /\ Labels(X_train) = last_split.train
        /\ Labels(X_test) = last_split.test

C6_Witness ==
    /\ run = 2
    /\ last_split.valid
    /\ pc = "cell6"
    /\ Len(X_train) >= 4
    /\ Labels(X_train) = last_split.train
    /\ Labels(X_test) = last_split.test

\* a record of the file with no missing cell and a Target that is not missing
NoOtherMissing(i) ==
    /\ \A c \in FeatureSet : ~IsNaN(csv[i][c])
    /\ ~IsNaN(data[i].v["Target"])

\* C7 (as claimed): a feature column of zero range does not stop the run,
\* and the records with no other missing value still enter the fit matrix.
C7_DegenerateColumnNonFatal ==
    (PastCell2 /\ \E c \in FeatureSet : ZeroRange(c)) =>
        /\ pc # "error"
        /\ PastCell4 =>
              \A i \in 1..Len(csv) : NoOtherMissing(i) => (i - 1) \in LabelSet(X)

\* number of linearly independent rows
Rank(M) == Len(SelectSeq(Rref(M, 1, 1), NonZeroRow))

\* rows (x, 1) and (x, 1, y) of the records of a split part
Affine(Xf) ==
    LET M == ToMatrix(Xf)
    IN  Array([i \in 1..Len(Xf) |-> Append(M[i], One)])
AffineWithTarget(Xf, ys) ==
    LET M == Affine(Xf)
    IN  Array([i \in 1..Len(Xf) |-> Append(M[i], ys[i].v)])

\* some w, b give Target = x . w + b on every record of the fit matrix
ExactlyLinear == Rank(AffineWithTarget(X, y)) = Rank(Affine(X))

\* every w, b that fits Training gives the same value on each Evaluation record
TrainingDetermines == Rank(Affine(X_train) \o Affine(X_test)) = Rank(Affine(X_train))

\* C8: when Target is an exact linear function of the features on the fit
\* matrix and Training determines it, every Evaluation record is predicted
\* exactly and the reported mean squared error is zero.
C8_ExactFitZeroError ==
    (pc = "done" /\ ExactlyLinear /\ TrainingDetermines) =>
        /\ y_pred = ToVector(y_test)
        /\ mse = Zero

C8_Witness ==
    /\ pc = "done"
    /\ ExactlyLinear
    /\ TrainingDetermines
    /\ Len(X_train) >= 4
    /\ Cardinality(Range(ToVector(y_test))) >= 2
    /\ model.intercept_ # Zero
    /\ mse = Zero

ColumnValues(frame, c) == {frame[k].v[c] : k \in 1..Len(frame)}

\* C9: each feature value of the fit matrix is the loaded value rescaled
\* with the minimum and maximum of the whole loaded column, rows later
\* dropped included, and lies in [0,1].
C9_RangeOfLoadedData ==
    (PastCell4 /\ Len(X) > 0) =>
        \A c \in FeatureSet :
            LET mn == LoadedMin(c)
                mx == LoadedMax(c)
            IN  \A k \in 1..Len(X) :
                    /\ X[k].v[c] = MinMax(Raw(X[k].label)[c], mn, mx)
                    /\ InUnit(X[k].v[c])

\* a fit-matrix column without the value 1: the maximum sat in a dropped row
C9_Witness ==
    /\ pc = "cell5"
    /\ Len(X) >= 2
    /\ One \notin ColumnValues(X, "pore_volume")
    /\ \E i \in 1..Len(csv) :
          /\ (i - 1) \notin LabelSet(X)
          /\ csv[i]["pore_volume"] = LoadedMax("pore_volume")

\* C10: for every record of the fit matrix, y is uptake_vol + 1/pore_volume
\* of the loaded (unscaled) values, while its two feature cells are rescaled.
C10_TargetFromRawValues ==
    PastCell4 =>
        \A k \in 1..Len(X) :
            LET u == Raw(X[k].label)["uptake_vol"]
                q == Raw(X[k].label)["pore_volume"]
            IN  /\ y[k].label = X[k].label
                /\ ~IsZero(q) => y[k].v = Fin(u.n * q.n + q.d * u.d, u.d * q.n)
                /\ y[k].v = data[X[k].label + 1].v["Target"]

C10_Witness ==
    /\ pc = "cell5"
    /\ \E k \in 1..Len(X) :
          /\ Raw(X[k].label)["uptake_vol"] = One
          /\ Raw(X[k].label)["pore_volume"] = Fin(1, 2)
          /\ X[k].v["pore_volume"] = Zero
          /\ X[k].v["uptake_vol"] = One
          /\ y[k].v = Num(3)

====
